---- MODULE Spec2Model ----
(***************************************************************************)
(* State-machine model of RS_D_T (src/camera_d_t.py): the two sensor       *)
(* pipelines, the calibration loop, the steady-state poll and the small    *)
(* control methods, driven by a caller that may invoke the public methods  *)
(* in any order.                                                           *)
(*                                                                         *)
(* Modelling conventions                                                   *)
(*  - None is the empty tuple <<>>; a 4x4 matrix is a 4-tuple of 4-tuples. *)
(*  - A tracker sample carries the Euler angles of its quaternion in whole  *)
(*    degrees (what rvec_to_rpy yields for it) and its translation.        *)
(*  - A colour image is described by what aruco.detectMarkers finds in it:  *)
(*    the ids array (<<>> for None) and the pose of the marker relative to  *)
(*    the camera (rotation in quarter turns about the optical axis,         *)
(*    integer translation), so Rodrigues and the inverse stay in integers.  *)
(*  - rs.pipeline.stop() and wait_for_frames() raise RuntimeError on a      *)
(*    pipeline that is not streaming (librealsense: "stop() cannot be       *)
(*    called before start()").                                             *)
(*  - Spec lets a caller invoke the public methods in any order; MainSpec   *)
(*    is the main program of the file.                                      *)
(*  - ServerSpec is the tracker server of src/vive/vive_tracker_server.py.  *)
(*    The device registry (triad_openvr) and the message class (models)     *)
(*    are not part of the sources: a registered device always reports a     *)
(*    pose and a velocity, and a message serialises to one JSON document.   *)
(***************************************************************************)
EXTENDS Integers, Sequences, FiniteSets, TLC

\* ------------------------------------------------------------------ bounds
MaxAngle == 2       \* roll and yaw of a tracker sample range over -MaxAngle..MaxAngle degrees
MaxCoord == 1       \* the x and y of a tracker translation range over 0..MaxCoord
MaxMarkerId == 1    \* marker ids range over 0..MaxMarkerId

\* ------------------------------------------------------- program constants
calibrate_threshold == 1
KEY_NONE == -1
KEY_ESC == 27
KEY_D == 100
KEY_Q == 113
SEMICOLON == 59
MaxReqLen == 2
PRINT_EVERY == 20

None == <<>>

\* ------------------------------------------------------------ linear algebra
Row4(A, B, i) == [j \in 1..4 |-> A[i][1]*B[1][j] + A[i][2]*B[2][j] + A[i][3]*B[3][j] + A[i][4]*B[4][j]]

\* A @ B for 4x4 matrices
MatMul(A, B) == [i \in 1..4 |-> Row4(A, B, i)]

\* A @ v for a 4x4 matrix and a 4-vector
MatVec(A, v) == [i \in 1..4 |-> A[i][1]*v[1] + A[i][2]*v[2] + A[i][3]*v[3] + A[i][4]*v[4]]

\* v[:3]
Head3(v) == <<v[1], v[2], v[3]>>

\* cv2.Rodrigues for a rotation of q quarter turns about the z axis
Cos4(q) == CASE q % 4 = 0 -> 1 [] q % 4 = 2 -> -1 [] OTHER -> 0
Sin4(q) == CASE q % 4 = 1 -> 1 [] q % 4 = 3 -> -1 [] OTHER -> 0
Rodrigues(q) == << <<Cos4(q), -Sin4(q), 0>>, <<Sin4(q), Cos4(q), 0>>, <<0, 0, 1>> >>

\* np.linalg.inv of the homogeneous matrix [R t; 0 1] with R orthonormal: [R^T  -R^T t; 0 1]
InvRigid(R, t) ==
    LET Rt == [i \in 1..3 |-> [j \in 1..3 |-> R[j][i]]]
        nt == [i \in 1..3 |-> -(Rt[i][1]*t[1] + Rt[i][2]*t[2] + Rt[i][3]*t[3])]
    IN << <<Rt[1][1], Rt[1][2], Rt[1][3], nt[1]>>,
          <<Rt[2][1], Rt[2][2], Rt[2][3], nt[2]>>,
          <<Rt[3][1], Rt[3][2], Rt[3][3], nt[3]>>,
          <<0, 0, 0, 1>> >>

\* the transformation from the d-camera's coordinate system to the marker's
cam2marker(rvec, tvec) == InvRigid(Rodrigues(rvec), tvec)

base_c2c == << <<1, 0, 0, 0>>, <<0, -1, 0, 0>>, <<0, 0, -1, 0>>, <<0, 0, 0, 1>> >>

\* the rig transform as it would be without the flip of the y and z axes
cam2cam_identity(t_rvec, t_tvec) ==
    << <<1, 0, 0, 0>>, <<0, 1, 0, 0>>, <<0, 0, 1, 0>>, <<0, 0, 0, 1>> >>

\* the transformation from the t-camera's coordinate system to the d-camera's;
\* use_default_cam2cam is True in CAM_CONFIG and no method changes it
cam2cam(t_rvec, t_tvec) == base_c2c

\* ------------------------------------------------------------ sensor samples
Angles == -MaxAngle..MaxAngle
Coords == 0..MaxCoord

\* pose_frame_data: (t_tvec, t_rvec); t_rvec stands as <<roll, pitch, yaw>> in degrees.
\* calibrate() reads only the angles of its sample (cam2cam ignores the pose under the
\* default rig) and poll() reads only the translation, so the samples handed to each
\* vary in that part alone.
CalibratePoses == [rpy : {<<r, 0, y>> : r \in Angles, y \in Angles}, tvec : {<<0, 0, 0, 1>>}]
PollPoses == [rpy : {<<0, 0, 0>>}, tvec : {<<x, MaxCoord - x, 2, 1>> : x \in Coords}]

\* the pose of the marker relative to the camera: quarter turns about z, translation
MarkerPoses == {[rvec |-> 0, tvec |-> <<1, 2, 3>>], [rvec |-> 1, tvec |-> <<0, 1, 2>>]}

\* what the marker detector finds in an image: the ids array (None, one id, or
\* several ids) and the pose estimated for the first marker
Images == {[ids |-> None, rvec |-> 0, tvec |-> <<0, 0, 0>>]}
            \cup {[ids |-> <<i>>, rvec |-> m.rvec, tvec |-> m.tvec] :
                     i \in 0..MaxMarkerId, m \in MarkerPoses}
            \cup {[ids |-> <<p[1], p[2]>>, rvec |-> 0, tvec |-> <<1, 2, 3>>] :
                     p \in {q \in (0..MaxMarkerId) \X (0..MaxMarkerId) : q[1] < q[2]}}

Keys == {KEY_NONE, KEY_ESC, KEY_D, KEY_Q}

NoPose == [rpy |-> <<0, 0, 0>>, tvec |-> <<0, 0, 0, 1>>]
NoImage == [ids |-> None, rvec |-> 0, tvec |-> <<0, 0, 0>>]

Max(a, b) == IF b > a THEN b ELSE a

\* ------------------------------------------------------------------- state
VARIABLES
    pc,           \* "new": not constructed; "idle": between calls; "calibrate": inside
                  \* the calibration loop; "dead": the constructor raised or sys.exit ran
    pipe_d,       \* colour pipeline: "created", "started", "stopped"
    pipe_t,       \* tracker pipeline: "created", "started", "stopped"
    show_gui, calibrated, detect_mode, location, d2m, t2d, t2m,
    show_img,     \* the argument of the calibrate() call in progress
    op,           \* the operation that took the last step
    trace,        \* what the last step did, in order
    inp,          \* the samples the frame source delivered to the last step
    raised,       \* the exception the last step raised to its caller, or "None"
    ret,          \* what the last step returned
    counter,      \* the loop counter of the main program, kept modulo PRINT_EVERY
    srv_pc,       \* the tracker server: "new", then "serving" once the registry exists
    devices,      \* triad_openvr.devices: the names of the registered devices
    request,      \* self.request[0] of the last request handled: the bytes received
    client_address, \* self.client_address of the last request handled
    sent          \* the datagrams the last handle() sent, in order

vars == <<pc, pipe_d, pipe_t, show_gui, calibrated, detect_mode, location, d2m, t2d, t2m,
          show_img, op, trace, inp, raised, ret, counter,
          srv_pc, devices, request, client_address, sent>>

\* the state of the tracker server, and the state of everything else
server == <<srv_pc, devices, request, client_address, sent>>
camera == <<pc, pipe_d, pipe_t, show_gui, calibrated, detect_mode, location, d2m, t2d, t2m,
            show_img, trace, inp, ret, counter>>

\* the object's fields as one record, and the assignment of such a record
Self == [pipe_d |-> pipe_d, pipe_t |-> pipe_t, show_gui |-> show_gui,
         calibrated |-> calibrated, detect_mode |-> detect_mode, location |-> location,
         d2m |-> d2m, t2d |-> t2d, t2m |-> t2m]

Become(s) ==
    /\ pipe_d' = s.pipe_d /\ pipe_t' = s.pipe_t /\ show_gui' = s.show_gui
    /\ calibrated' = s.calibrated /\ detect_mode' = s.detect_mode
    /\ location' = s.location /\ d2m' = s.d2m /\ t2d' = s.t2d /\ t2m' = s.t2m

NoInput == [pose |-> NoPose, img |-> NoImage, okT |-> TRUE, okD |-> TRUE, key |-> KEY_NONE]

RET_NONE == [tag |-> "None", val |-> <<0, 0, 0>>]
RET_NAN == [tag |-> "nan", val |-> <<0, 0, 0>>]
RetLoc(v) == [tag |-> "loc", val |-> v]

Init ==
    /\ pc = "new"
    /\ pipe_d = "created" /\ pipe_t = "created"
    /\ show_gui = TRUE /\ calibrated = FALSE /\ detect_mode = FALSE
    /\ location = <<0, 0, 0>>
    /\ d2m = None /\ t2d = None /\ t2m = None
    /\ show_img = FALSE
    /\ op = "none" /\ trace = <<>> /\ inp = NoInput
    /\ raised = "None" /\ ret = RET_NONE
    /\ counter = 0
    /\ srv_pc = "new" /\ devices = {} /\ request = <<>> /\ client_address = 0
    /\ sent = <<>>

\* ------------------------------------------------------------- the methods
\* Each method is an operator from the object's fields s (and the samples it is
\* handed) to its outcome: the fields afterwards, the exception raised to the
\* caller ("None" when it returns), the value returned, and what it did.
Outcome(s, exc, r, tr) == [self |-> s, raised |-> exc, ret |-> r, trace |-> tr]

\* rs.pipeline.start(cfg): streams unless the device fails to open
pipe_start(ok) == IF ok THEN "started" ELSE "created"

\* wait_for_frames() delivers a frame when the pipeline streams and the read succeeds
read_ok(pipe, ok) == pipe = "started" /\ ok

\* stop() as it would be if shutting down also dropped the calibration
stop_resets(s) ==
    Outcome([s EXCEPT !.pipe_d = "stopped", !.pipe_t = "stopped", !.calibrated = FALSE],
            "None", RET_NONE, <<"stop_d", "stop_t">>)

\* stop(): pipe_d.stop() then pipe_t.stop(); stopping a pipeline that is not
\* streaming raises, and the second stop is then never reached
stop(s) ==
    IF s.pipe_d # "started"
    THEN Outcome(s, "RuntimeError", RET_NONE, <<"stop_d">>)
    ELSE IF s.pipe_t # "started"
    THEN Outcome([s EXCEPT !.pipe_d = "stopped"], "RuntimeError", RET_NONE, <<"stop_d", "stop_t">>)
    ELSE Outcome([s EXCEPT !.pipe_d = "stopped", !.pipe_t = "stopped"], "None", RET_NONE,
                 <<"stop_d", "stop_t">>)

\* __init__(GUI): start the colour pipeline, then the tracker pipeline; on a failure
\* call stop() and raise ConnectionError; otherwise set the fields
RS_D_T_init(s, GUI, okD, okT) ==
    LET s0 == [s EXCEPT !.show_gui = GUI, !.location = <<0, 0, 0>>]
        s1 == [s0 EXCEPT !.pipe_d = pipe_start(okD)]
        s2 == [s1 EXCEPT !.pipe_t = pipe_start(okT)]
        u1 == stop(s1)
        u2 == stop(s2)
    IN IF ~okD
       THEN Outcome(u1.self, IF u1.raised # "None" THEN u1.raised ELSE "ConnectionError",
                    RET_NONE, <<"start_d">> \o u1.trace)
       ELSE IF ~okT
       THEN Outcome(u2.self, IF u2.raised # "None" THEN u2.raised ELSE "ConnectionError",
                    RET_NONE, <<"start_d", "start_t">> \o u2.trace)
       ELSE Outcome([s2 EXCEPT !.calibrated = FALSE, !.detect_mode = FALSE,
                                !.d2m = None, !.t2d = None, !.t2m = None],
                    "None", RET_NONE, <<"start_d", "start_t">>)

start_detect(s) == Outcome([s EXCEPT !.detect_mode = TRUE], "None", RET_NONE, <<>>)

stop_detect(s) == Outcome([s EXCEPT !.detect_mode = FALSE], "None", RET_NONE, <<>>)

\* `if ids:` on the ids array: None is false, an array of one element has that
\* element's truth value, an array of several elements raises ValueError
ids_truth(ids) ==
    IF ids = None THEN "False"
    ELSE IF Len(ids) > 1 THEN "ValueError"
    ELSE IF ids[1] # 0 THEN "True" ELSE "False"

\* get_trans_mat(img): (d2m, tvec, rvec), or (None, None, None), or ValueError
get_trans_mat(img) ==
    LET b == ids_truth(img.ids)
    IN IF b = "ValueError" THEN [raised |-> "ValueError", d2m |-> None, tvec |-> None]
       ELSE IF b = "True"
       THEN [raised |-> "None", d2m |-> cam2marker(img.rvec, img.tvec), tvec |-> img.tvec]
       ELSE [raised |-> "None", d2m |-> None, tvec |-> None]

\* the attitude test as it would be if it looked at the roll alone
t_flag_roll_only(rpy) == rpy[1] > calibrate_threshold

\* the attitude test of calibrate(): max(rpy[0], rpy[2]) > self.calibrate_thres
t_flag(rpy) == Max(rpy[1], rpy[3]) > calibrate_threshold

\* the assignments as they would be if the product were never stored
store_without_t2m(s, m, pose) ==
    [s EXCEPT !.d2m = m, !.t2d = cam2cam(pose.rpy, pose.tvec), !.calibrated = TRUE]

\* the assignments as they would be if the flag were never raised
store_without_flag(s, m, pose) ==
    [s EXCEPT !.d2m = m,
              !.t2d = cam2cam(pose.rpy, pose.tvec),
              !.t2m = MatMul(m, cam2cam(pose.rpy, pose.tvec))]

\* the four assignments that end a successful calibration tick
store(s, m, pose) ==
    [s EXCEPT !.d2m = m,
              !.t2d = cam2cam(pose.rpy, pose.tvec),
              !.t2m = MatMul(m, cam2cam(pose.rpy, pose.tvec)),
              !.calibrated = TRUE]

\* one iteration of `while not self.calibrated` with show_img=True
tick_show(s, in) ==
    LET g == get_trans_mat(in.img)
        d_flag == g.d2m = None
        tr == <<"read_t", "read_d", "rpy", "detect">>
    IN IF g.raised # "None" THEN Outcome(s, g.raised, RET_NONE, tr)
       ELSE IF ~(t_flag(in.pose.rpy) \/ d_flag)
       THEN Outcome(store(s, g.d2m, in.pose), "None", RET_NONE, tr \o <<"imshow", "store">>)
       ELSE Outcome(s, "None", RET_NONE, tr \o <<"imshow">>)

\* the command-line branch as it would be if it ran the detector before the
\* attitude test
tick_cmd_detect_first(s, in) ==
    LET g == get_trans_mat(in.img)
        tr == <<"read_t", "read_d", "rpy", "sleep", "detect">>
    IN IF g.raised # "None" THEN Outcome(s, g.raised, RET_NONE, tr)
       ELSE IF t_flag(in.pose.rpy) \/ g.d2m = None THEN Outcome(s, "None", RET_NONE, tr)
       ELSE Outcome(store(s, g.d2m, in.pose), "None", RET_NONE, tr \o <<"store">>)

\* one iteration of `while not self.calibrated` with show_img=False
tick_cmd(s, in) ==
    LET g == get_trans_mat(in.img)
        tr == <<"read_t", "read_d", "rpy", "sleep">>
    IN IF t_flag(in.pose.rpy) THEN Outcome(s, "None", RET_NONE, tr)
       ELSE IF g.raised # "None" THEN Outcome(s, g.raised, RET_NONE, tr \o <<"detect">>)
       ELSE IF g.d2m = None THEN Outcome(s, "None", RET_NONE, tr \o <<"detect">>)
       ELSE Outcome(store(s, g.d2m, in.pose), "None", RET_NONE, tr \o <<"detect", "store">>)

\* the loop body as it would be if the colour pipeline were read first
calibrate_tick_d_first(s, show, in) ==
    IF ~read_ok(s.pipe_d, in.okD) THEN Outcome(s, "RuntimeError", RET_NONE, <<"read_d">>)
    ELSE IF ~read_ok(s.pipe_t, in.okT)
    THEN Outcome(s, "RuntimeError", RET_NONE, <<"read_d", "read_t">>)
    ELSE LET o == IF show THEN tick_show(s, in) ELSE tick_cmd(s, in)
         IN [o EXCEPT !.trace = <<"read_d", "read_t">> \o SubSeq(o.trace, 3, Len(o.trace))]

\* the loop test as it would be in a loop that runs its body before testing
calibrate_enters_always(s) == TRUE

\* the loop test of calibrate(): `while not self.calibrated`
calibrate_enters(s) == ~s.calibrated

\* one iteration of the loop of calibrate(show_img): the tracker read, the colour
\* read (neither is guarded by a try), then the branch for show_img
calibrate_tick(s, show, in) ==
    IF ~read_ok(s.pipe_t, in.okT) THEN Outcome(s, "RuntimeError", RET_NONE, <<"read_t">>)
    ELSE IF ~read_ok(s.pipe_d, in.okD)
    THEN Outcome(s, "RuntimeError", RET_NONE, <<"read_t", "read_d">>)
    ELSE IF show THEN tick_show(s, in) ELSE tick_cmd(s, in)

\* the GUI part as it would be if the live re-localization overwrote self.d2m
poll_gui_relocalizes(s, in) ==
    LET g == get_trans_mat(in.img)
        tr == <<"read_d", "read_t", "locate">>
               \o (IF s.detect_mode THEN <<"detect">> ELSE <<>>)
        s1 == IF s.detect_mode /\ g.raised = "None" /\ g.d2m # None
              THEN [s EXCEPT !.d2m = g.d2m] ELSE s
    IN IF s.detect_mode /\ g.raised # "None" THEN Outcome(s, "None", RET_NAN, tr)
       ELSE IF in.key % 256 = KEY_Q \/ in.key = KEY_ESC
       THEN Outcome(s1, "SystemExit", RET_NONE, tr \o <<"imshow", "exit">>)
       ELSE Outcome(s1, "None", RetLoc(s1.location), tr \o <<"imshow">>)

\* the GUI part of poll(), after self.location is set
poll_gui(s, in) ==
    LET g == get_trans_mat(in.img)
        tr == <<"read_d", "read_t", "locate">>
               \o (IF s.detect_mode THEN <<"detect">> ELSE <<>>)
        key_ord == in.key % 256
    IN IF s.detect_mode /\ g.raised # "None" THEN Outcome(s, "None", RET_NAN, tr)
       ELSE IF key_ord = KEY_Q \/ in.key = KEY_ESC
       THEN Outcome(s, "SystemExit", RET_NONE, tr \o <<"imshow", "exit">>)
       ELSE IF key_ord = KEY_D
       THEN Outcome([s EXCEPT !.detect_mode = ~s.detect_mode], "None", RetLoc(s.location),
                    tr \o <<"imshow">>)
       ELSE Outcome(s, "None", RetLoc(s.location), tr \o <<"imshow">>)

\* the body of poll() as it would be if the reads stood outside the try
poll_try_reads_outside(s, in) ==
    IF ~read_ok(s.pipe_d, in.okD) THEN Outcome(s, "RuntimeError", RET_NONE, <<"read_d">>)
    ELSE IF ~read_ok(s.pipe_t, in.okT)
    THEN Outcome(s, "RuntimeError", RET_NONE, <<"read_d", "read_t">>)
    ELSE LET s1 == [s EXCEPT !.location = Head3(MatVec(s.t2m, in.pose.tvec))]
         IN IF s.show_gui THEN poll_gui(s1, in)
            ELSE Outcome(s1, "None", RetLoc(s1.location), <<"read_d", "read_t", "locate">>)

\* the body of the try of poll(): the colour read, the tracker read, the location,
\* the GUI; `except Exception` turns every failure into the NaN sentinel
poll_try(s, in) ==
    LET s1 == [s EXCEPT !.location = Head3(MatVec(s.t2m, in.pose.tvec))]
    IN IF ~read_ok(s.pipe_d, in.okD) THEN Outcome(s, "None", RET_NAN, <<"read_d">>)
       ELSE IF ~read_ok(s.pipe_t, in.okT)
       THEN Outcome(s, "None", RET_NAN, <<"read_d", "read_t">>)
       ELSE IF s.show_gui THEN poll_gui(s1, in)
       ELSE Outcome(s1, "None", RetLoc(s1.location), <<"read_d", "read_t", "locate">>)

\* poll() as it would be without the calibration guard: the reads run, then
\* None @ t_tvec raises inside the try
poll_without_guard(s, in) ==
    IF ~s.calibrated
    THEN Outcome(s, "None", RET_NAN,
                 IF read_ok(s.pipe_d, in.okD) THEN <<"read_d", "read_t">> ELSE <<"read_d">>)
    ELSE poll_try(s, in)

\* poll(): NaN without touching the sensors when not calibrated
poll(s, in) ==
    IF ~s.calibrated THEN Outcome(s, "None", RET_NAN, <<>>) ELSE poll_try(s, in)

\* ------------------------------------------------------------------ actions
\* the samples a step can be handed: both reads deliver, or the tracker read
\* fails, or the colour read fails (a failed tick delivers nothing)
Inputs(poses, keys) ==
    [pose : poses, img : Images, okT : {TRUE}, okD : {TRUE}, key : keys]
      \cup {[NoInput EXCEPT !.okT = FALSE], [NoInput EXCEPT !.okD = FALSE]}

Finish(name, o, in) ==
    /\ Become(o.self)
    /\ op' = name /\ trace' = o.trace /\ inp' = in
    /\ raised' = o.raised /\ ret' = o.ret

\* camera = RS_D_T(GUI=...)
Construct ==
    /\ pc = "new"
    /\ \E GUI \in BOOLEAN, okD \in BOOLEAN, okT \in BOOLEAN :
         LET o == RS_D_T_init(Self, GUI, okD, okT)
         IN /\ Finish("init", o, [NoInput EXCEPT !.okD = okD, !.okT = okD => okT])
            /\ pc' = IF o.raised = "None" THEN "idle" ELSE "dead"
    /\ UNCHANGED <<show_img, counter, server>>

\* camera.calibrate(show_img): enters the loop, or returns at once when calibrated
CalibrateCall ==
    /\ pc = "idle"
    /\ \E show \in BOOLEAN : show_img' = show
    /\ pc' = IF calibrate_enters(Self) THEN "calibrate" ELSE "idle"
    /\ Finish("calibrate", Outcome(Self, "None", RET_NONE, <<>>), NoInput)
    /\ UNCHANGED <<counter, server>>

\* one iteration of the calibration loop; the call returns when the tick has
\* calibrated, and ends with the exception when the tick raised
CalibrateTick ==
    /\ pc = "calibrate"
    /\ \E in \in Inputs(CalibratePoses, {KEY_NONE}) :
         LET o == calibrate_tick(Self, show_img, in)
         IN /\ Finish("tick", o, in)
            /\ pc' = IF o.raised = "None" /\ calibrate_enters(o.self)
                     THEN "calibrate" ELSE "idle"
    /\ UNCHANGED <<show_img, counter, server>>

\* loc = camera.poll()
Poll ==
    /\ pc = "idle"
    /\ \E in \in IF calibrated
                 THEN Inputs(PollPoses, IF show_gui THEN Keys ELSE {KEY_NONE})
                 ELSE {NoInput} :
         LET o == poll(Self, in)
         IN /\ Finish("poll", o, in)
            /\ pc' = IF o.raised = "SystemExit" THEN "dead" ELSE "idle"
    /\ UNCHANGED <<show_img, counter, server>>

\* camera.stop()
Stop ==
    /\ pc = "idle"
    /\ Finish("stop", stop(Self), NoInput)
    /\ UNCHANGED <<pc, show_img, counter, server>>

\* camera.start_detect()
StartDetect ==
    /\ pc = "idle"
    /\ Finish("start_detect", start_detect(Self), NoInput)
    /\ UNCHANGED <<pc, show_img, counter, server>>

\* camera.stop_detect()
StopDetect ==
    /\ pc = "idle"
    /\ Finish("stop_detect", stop_detect(Self), NoInput)
    /\ UNCHANGED <<pc, show_img, counter, server>>

Next ==
    \/ Construct
    \/ CalibrateCall
    \/ CalibrateTick
    \/ Poll
    \/ Stop
    \/ StartDetect
    \/ StopDetect

Spec == Init /\ [][Next]_vars

\* a tick handed a level tracker sample and an image in sight of one marker
LevelInput ==
    [NoInput EXCEPT !.img = [ids |-> <<1>>, rvec |-> 1, tvec |-> <<0, 1, 2>>]]

\* The calibration loop is a running `while`: as long as it runs, the frame source
\* again and again delivers both samples with the rig held level in sight of a
\* marker. This is weak fairness of the tick on LevelInput, written out: that tick
\* is enabled exactly while pc = "calibrate".
LiveSpec ==
    /\ Init /\ [][Next]_vars
    /\ \/ []<>(pc # "calibrate")
       \/ []<><<op' = "tick" /\ inp' = LevelInput>>_vars

\* ------------------------------------------------------- the main program
\* np.isnan(loc).all()
isnan_all(r) == r.tag = "nan"

\* camera = RS_D_T(); counter = 0; camera.calibrate(show_img=True) is entered.
\* An exception of the constructor ends the process.
MainStart ==
    /\ pc = "new"
    /\ \E okD \in BOOLEAN, okT \in BOOLEAN :
         LET o == RS_D_T_init(Self, TRUE, okD, okT)
         IN /\ Finish("init", o, [NoInput EXCEPT !.okD = okD, !.okT = okD => okT])
            /\ pc' = IF o.raised = "None" THEN "main_calibrate" ELSE "exited"
    /\ show_img' = TRUE
    /\ counter' = 0
    /\ UNCHANGED server

\* one iteration of the loop of camera.calibrate(show_img=True); an exception
\* of the tick ends the process
MainTick ==
    /\ pc = "main_calibrate"
    /\ \E in \in Inputs(CalibratePoses, {KEY_NONE}) :
         LET o == calibrate_tick(Self, TRUE, in)
         IN /\ Finish("tick", o, in)
            /\ pc' = IF o.raised # "None" THEN "exited"
                     ELSE IF calibrate_enters(o.self) THEN "main_calibrate" ELSE "main_poll"
    /\ UNCHANGED <<show_img, counter, server>>

\* one iteration of `while True`: loc = camera.poll(); a NaN leads to
\* camera.stop() and break, sys.exit inside poll() ends the process at once,
\* otherwise loc is printed every PRINT_EVERY iterations and counter goes up
MainPoll ==
    /\ pc = "main_poll"
    /\ \E in \in Inputs(PollPoses, Keys) :
         LET o == poll(Self, in)
             printed == [o EXCEPT !.trace = IF counter % PRINT_EVERY = 0
                                            THEN o.trace \o <<"print">> ELSE o.trace]
         IN IF o.raised = "SystemExit"
            THEN Finish("poll", o, in) /\ pc' = "exited" /\ UNCHANGED counter
            ELSE IF isnan_all(o.ret)
            THEN Finish("poll", o, in) /\ pc' = "main_stop" /\ UNCHANGED counter
            ELSE /\ Finish("poll", printed, in)
                 /\ pc' = "main_poll"
                 /\ counter' = (counter + 1) % PRINT_EVERY
    /\ UNCHANGED <<show_img, server>>

\* camera.stop(); break: the process ends
MainStop ==
    /\ pc = "main_stop"
    /\ Finish("stop", stop(Self), NoInput)
    /\ pc' = "exited"
    /\ UNCHANGED <<show_img, counter, server>>

MainNext ==
    \/ MainStart
    \/ MainTick
    \/ MainPoll
    \/ MainStop

MainSpec == Init /\ [][MainNext]_vars

\* ------------------------------------------------------ the tracker server
\* Text and bytes are kept apart: a str is [chars |-> ...], bytes are
\* [bytes |-> ...]; a character is its code point, a byte its value.
Str(cs) == [chars |-> cs]
Bytes(bs) == [bytes |-> bs]

\* what bytes.strip() removes: ASCII whitespace
Whitespace == {9, 10, 11, 12, 13, 32}

\* the bytes a request is made of: a space, two letters, and a byte that is
\* not UTF-8
RequestBytes == {32, 97, 98, 255}
RECURSIVE SeqsUpTo(_, _)
SeqsUpTo(S, n) ==
    IF n = 0 THEN {<<>>}
    ELSE LET shorter == SeqsUpTo(S, n - 1)
         IN shorter \cup {Append(q, b) : q \in {r \in shorter : Len(r) = n - 1}, b \in S}
Requests == {Bytes(q) : q \in SeqsUpTo(RequestBytes, MaxReqLen)}
Clients == {1, 2}

\* the device names the registry may hold, and what a tracker may report
DeviceNames == {Str(<<97>>), Str(<<98>>), Str(<<97, 98>>)}
Readings == [euler : {<<0, 0, 0, 0, 0, 0>>, <<1, 2, 0, 0, 3, 0>>}, velocity : {<<0, 0, 0>>}]

RECURSIVE lstrip(_)
lstrip(q) == IF q # <<>> /\ Head(q) \in Whitespace THEN lstrip(Tail(q)) ELSE q
RECURSIVE rstrip(_)
rstrip(q) ==
    IF q # <<>> /\ q[Len(q)] \in Whitespace THEN rstrip(SubSeq(q, 1, Len(q) - 1)) ELSE q
strip(b) == Bytes(rstrip(lstrip(b.bytes)))

\* bytes.decode(): UTF-8; of the bytes above only 255 cannot be decoded
decodable(b) == \A k \in 1..Len(b.bytes) : b.bytes[k] < 128
decode(b) == Str(b.bytes)
encode(t) == Bytes(t.chars)

get_tracker(devs, tracker_name) == IF tracker_name \in devs THEN tracker_name ELSE None

ViveTrackerMessage(valid, euler, vel, device_name) ==
    [valid |-> valid, x |-> euler[1], y |-> euler[2], z |-> euler[3],
     yaw |-> euler[4], pitch |-> euler[5], roll |-> euler[6],
     vel_x |-> vel[1], vel_y |-> vel[2], vel_z |-> vel[3], device_name |-> device_name]

create_tracker_message(reading, tracker_name) ==
    ViveTrackerMessage(TRUE, reading.euler, reading.velocity, tracker_name)

vive_poll(devs, tracker_name, reading) ==
    IF get_tracker(devs, tracker_name) # None
    THEN create_tracker_message(reading, tracker_name)
    ELSE None

\* data.json(): the document as text between braces
json(data) == Str(<<123, data, 125>>)
\* json.dumps of a str: the text between double quotes
json_dumps(t) == Str(<<34>> \o t.chars \o <<34>>)

construct_json_message(data) ==
    LET json_data == json_dumps(json(data))
    IN Str(json_data.chars \o <<SEMICOLON>>)

\* handle(): the exception it raises and the datagrams it sends
Handled(exc, out) == [raised |-> exc, sent |-> out]

handle_answers_always(devs, data, address, reading) ==
    IF ~decodable(strip(data)) THEN Handled("UnicodeDecodeError", <<>>)
    ELSE Handled("None",
                 <<[to |-> address,
                    data |-> encode(construct_json_message(
                        create_tracker_message(reading, decode(strip(data)))))]>>)

handle(devs, data, address, reading) ==
    IF ~decodable(strip(data)) THEN Handled("UnicodeDecodeError", <<>>)
    ELSE LET tracker_name == decode(strip(data))
             message == vive_poll(devs, tracker_name, reading)
         IN IF message # None
            THEN Handled("None",
                         <<[to |-> address,
                            data |-> encode(construct_json_message(message))]>>)
            ELSE Handled("None", <<>>)

\* triad_openvr = TriadOpenVR(): the registry is filled with the devices found
ServerStart ==
    /\ srv_pc = "new"
    /\ srv_pc' = "serving"
    /\ \E devs \in SUBSET DeviceNames : devices' = devs
    /\ op' = "serve" /\ raised' = "None"
    /\ UNCHANGED <<camera, request, client_address, sent>>

\* server.serve_forever(): one request is received and handled
Handle ==
    /\ srv_pc = "serving"
    /\ \E data \in Requests, address \in Clients, reading \in Readings :
         LET h == handle(devices, data, address, reading)
         IN /\ request' = data /\ client_address' = address
            /\ sent' = h.sent
            /\ op' = "handle" /\ raised' = h.raised
    /\ UNCHANGED <<camera, srv_pc, devices>>

ServerNext ==
    \/ ServerStart
    \/ Handle

ServerSpec == Init /\ [][ServerNext]_vars

\* ------------------------------------------------------------------- claims
In(e, tr) == \E i \in 1..Len(tr) : tr[i] = e

Abs(x) == IF x < 0 THEN -x ELSE x

TransformsUnchanged == d2m' = d2m /\ t2d' = t2d /\ t2m' = t2m

\* C1: once calibrated is true, no step of calibrate(), poll(), start_detect(),
\* stop_detect() or stop() makes it false again.
C1_CalibratedOneWay == [][calibrated => calibrated']_vars

\* a calibrated object that has since been shut down
C1_Witness == calibrated /\ op = "stop" /\ raised = "None" /\ pipe_t = "stopped"

\* C2: a calibration tick (either show_img mode) whose max(roll, yaw) exceeds the
\* threshold does not calibrate and leaves d2m, t2d, t2m as they were; a tick whose
\* max(roll, yaw) is at most the threshold passes the gate: with one plainly
\* detected marker it calibrates.
C2_AttitudeGate ==
    [][(op' = "tick" /\ In("rpy", trace')) =>
         LET roll == inp'.pose.rpy[1]
             yaw == inp'.pose.rpy[3]
             top == IF roll >= yaw THEN roll ELSE yaw
         IN /\ top > calibrate_threshold => ~calibrated' /\ TransformsUnchanged
            /\ (top <= calibrate_threshold /\ Len(inp'.img.ids) = 1 /\ inp'.img.ids[1] # 0)
                 => calibrated']_vars

\* a tick in sight of a marker that the yaw alone keeps from calibrating
C2_Witness ==
    /\ op = "tick" /\ In("rpy", trace) /\ ~calibrated
    /\ inp.pose.rpy[1] = 0 /\ inp.pose.rpy[3] > calibrate_threshold
    /\ inp.img.ids = <<1>>

\* C3: every tick that calibrates saw a level rig: |roll| and |yaw| are both within
\* the threshold.
C3_LevelRig ==
    (op = "tick" /\ calibrated) =>
        /\ Abs(inp.pose.rpy[1]) <= calibrate_threshold
        /\ Abs(inp.pose.rpy[3]) <= calibrate_threshold

\* C4: a tick whose attitude gate passes calibrates exactly when the detector
\* reported at least one marker, whatever the ids.
C4_MarkerGate ==
    (op = "tick" /\ In("rpy", trace) /\ ~t_flag(inp.pose.rpy)) =>
        (calibrated <=> inp.img.ids # None)

\* C5: between operations, calibrated holds exactly when d2m, t2d and t2m are all
\* set, and they are set all together or not at all.
C5_AtomicCalibration ==
    /\ calibrated <=> (d2m # None /\ t2d # None /\ t2m # None)
    /\ (d2m = None) = (t2d = None)
    /\ (t2d = None) = (t2m = None)

\* a tick that raised part-way through, after the detector ran
C5_Witness == op = "tick" /\ raised = "ValueError" /\ In("detect", trace) /\ d2m = None

\* C6: poll() on an uncalibrated object returns the NaN sentinel, raises nothing,
\* reads neither pipeline and leaves calibrated, location and the transforms alone.
C6_PollUncalibrated ==
    [][(op' = "poll" /\ ~calibrated) =>
         /\ ret' = RET_NAN /\ raised' = "None"
         /\ ~In("read_d", trace') /\ ~In("read_t", trace')
         /\ calibrated' = calibrated /\ location' = location
         /\ TransformsUnchanged]_vars

\* an uncalibrated object with both pipelines streaming, polled
C6_Witness ==
    /\ op = "poll" /\ ~calibrated /\ ret = RET_NAN
    /\ pipe_d = "started" /\ pipe_t = "started"

\* C7: on a calibrated object, a poll() in which a read fails or the marker
\* detection raises returns the NaN sentinel, and no poll() raises an error to its
\* caller (only the quit key's SystemExit leaves it).
C7_PollFailureIsSentinel ==
    [][(op' = "poll" /\ calibrated) =>
         LET readFails == ~read_ok(pipe_d, inp'.okD) \/ ~read_ok(pipe_t, inp'.okT)
             detectFails == show_gui /\ detect_mode /\ Len(inp'.img.ids) > 1
         IN /\ raised' \in {"None", "SystemExit"}
            /\ (readFails \/ detectFails) => (ret' = RET_NAN /\ raised' = "None")]_vars

\* a calibrated poll whose tracker read failed
C7_Witness ==
    /\ op = "poll" /\ calibrated /\ ~inp.okT /\ pipe_d = "started"
    /\ ret = RET_NAN /\ raised = "None"

\* C8: a calibration tick in which a read fails, or a gate fails, raises nothing and
\* leaves calibrate() looping.
C8_CalibrationNeverFatal ==
    LET readFails == ~inp.okT \/ ~inp.okD
        attitudeFails == In("rpy", trace) /\ t_flag(inp.pose.rpy)
        markerFails == In("rpy", trace) /\ inp.img.ids = None
    IN (op = "tick" /\ (readFails \/ attitudeFails \/ markerFails)) =>
           (raised = "None" /\ pc = "calibrate")

\* C9 as stated: in every tick of calibrate() and of poll() the tracker pipeline is
\* read first and the colour pipeline second.
C9_TrackerFirstEverywhere ==
    (op \in {"tick", "poll"} /\ trace # <<>>) =>
        /\ trace[1] = "read_t"
        /\ Len(trace) >= 2 => trace[2] = "read_d"

ReadsThenCompute(first, second) ==
    /\ trace[1] = first
    /\ Len(trace) >= 2 => trace[2] = second
    /\ \A i \in 3..Len(trace) : trace[i] \notin {"read_t", "read_d"}
    /\ Len(trace) >= 3 => (inp.okT /\ inp.okD)

\* C9 as amended: a tick of calibrate() reads the tracker pipeline and then the
\* colour pipeline, a poll() reads the colour pipeline and then the tracker
\* pipeline, and in both nothing is computed before both reads have delivered.
C9_ReadOrder ==
    /\ op = "tick" => ReadsThenCompute("read_t", "read_d")
    /\ (op = "poll" /\ trace # <<>>) => ReadsThenCompute("read_d", "read_t")

\* a poll that read both pipelines and went on to compute the location
C9_Witness == op = "poll" /\ In("read_d", trace) /\ In("locate", trace)

\* C10: when a pipeline fails to start in the constructor, every pipeline that was
\* started is stopped, the caller receives ConnectionError, and the object never
\* reaches calibration.
C10_StartupTeardown ==
    (op = "init" /\ (~inp.okD \/ ~inp.okT)) =>
        /\ pipe_d # "started" /\ pipe_t # "started"
        /\ raised = "ConnectionError"
        /\ pc = "dead"

\* C12: calibrate(show_img), with either value of show_img, on a calibrated object
\* returns at once: no tick runs, so nothing is read and no marker is looked for,
\* and calibrated, d2m, t2d, t2m stay as they are.
C12_CalibrateIdempotent ==
    [][/\ (op' = "calibrate" /\ calibrated) =>
            /\ pc' = "idle" /\ trace' = <<>> /\ raised' = "None"
            /\ calibrated' /\ TransformsUnchanged
       /\ op' = "tick" => ~calibrated]_vars

\* a calibrated object on which calibrate(show_img=True) was called again
C12_Witness == op = "calibrate" /\ calibrated /\ show_img /\ pc = "idle" /\ trace = <<>>

\* C13: a poll() on a calibrated object whose reads both deliver returns the
\* location fixed by t2m and the tracker translation, whatever the image holds
\* and whatever detect_mode and show_gui are.
C13_NoMarkerDependency ==
    (op = "poll" /\ calibrated /\ In("locate", trace) /\ raised = "None") =>
        ret = RetLoc(Head3(MatVec(t2m, inp.pose.tvec)))

Diag == << <<1, 0, 0, 0>>, <<0, -1, 0, 0>>, <<0, 0, -1, 0>>, <<0, 0, 0, 1>> >>

\* d2m @ diag(1,-1,-1,1): d2m with its second and third columns negated
FlipYZ(m) == [i \in 1..4 |-> <<m[i][1], -m[i][2], -m[i][3], m[i][4]>>]

\* the first three components of m @ [x, y, z, 1]
Apply3(m, t) == [i \in 1..3 |-> m[i][1]*t[1] + m[i][2]*t[2] + m[i][3]*t[3] + m[i][4]]

\* C14: under the default rig configuration the stored t2d is diag(1,-1,-1,1)
\* whatever the tracker pose, the stored t2m is d2m @ diag(1,-1,-1,1), and every
\* poll() that returns a location returns the first three components of
\* t2m @ [x, y, z, 1] for the tracker translation (x, y, z).
C14_EndToEndValue ==
    calibrated =>
        /\ t2d = Diag
        /\ t2m = FlipYZ(d2m)
        /\ (op = "poll" /\ ret.tag = "loc") =>
               /\ ret.val = Apply3(t2m, inp.pose.tvec)
               /\ location = ret.val

\* a location returned for a translation off the origin under a turned marker
C14_Witness ==
    /\ op = "poll" /\ calibrated /\ ret.tag = "loc"
    /\ inp.pose.tvec[1] = 1 /\ d2m[1][1] = 0

TopAngle(rpy) == IF rpy[1] >= rpy[3] THEN rpy[1] ELSE rpy[3]

\* C16 as stated: in both show_img modes a tick that fails the attitude gate never
\* runs the marker detector.
C16_NoDetectionAfterGateFails ==
    (op = "tick" /\ In("rpy", trace) /\ TopAngle(inp.pose.rpy) > calibrate_threshold) =>
        ~In("detect", trace)

\* C16 as amended: with show_img=False a tick that fails the attitude gate never
\* runs the marker detector; with show_img=True every tick whose reads deliver
\* runs it, and a tick that fails the gate stores nothing of what it found.
C16_DetectionByMode ==
    (op = "tick" /\ In("rpy", trace)) =>
        /\ (~show_img /\ TopAngle(inp.pose.rpy) > calibrate_threshold)
             => ~In("detect", trace)
        /\ show_img => In("detect", trace)
        /\ TopAngle(inp.pose.rpy) > calibrate_threshold => (~calibrated /\ d2m = None)

\* a command-line tick in sight of a marker that the attitude gate turned away
C16_Witness ==
    /\ op = "tick" /\ ~show_img /\ In("rpy", trace)
    /\ TopAngle(inp.pose.rpy) > calibrate_threshold
    /\ inp.img.ids = <<1>> /\ ~In("detect", trace)

\* C17: once calibrated, no step of poll(), calibrate(), start_detect(),
\* stop_detect() or stop() changes d2m, t2d or t2m.
C17_TransformsFrozen == [][calibrated => TransformsUnchanged]_vars

\* a calibrated poll in detection mode that found a marker and returned a location
C17_Witness ==
    /\ op = "poll" /\ calibrated /\ In("detect", trace) /\ ret.tag = "loc"
    /\ inp.img.ids = <<1>>

\* C19: a poll() that returns the NaN sentinel leaves self.location as it was.
C19_SentinelKeepsLocation ==
    [][(op' = "poll" /\ ret' = RET_NAN) => location' = location]_vars

\* C20: from the same state and on the same samples, the show_img=True tick and
\* the show_img=False tick end alike: the same fields, the same error or none.
C20_PathsEquivalent ==
    pc = "calibrate" =>
        \A in \in Inputs(CalibratePoses, {KEY_NONE}) :
            /\ calibrate_tick(Self, TRUE, in).self = calibrate_tick(Self, FALSE, in).self
            /\ calibrate_tick(Self, TRUE, in).raised = calibrate_tick(Self, FALSE, in).raised

C11_ReleaseOnExit ==
    (pc = "exited" /\ op \in {"poll", "stop"}) =>
        (pipe_d = "stopped" /\ pipe_t = "stopped")

\* the request is the name of device d, with whitespace around it at most
Requests_device(d) ==
    \E i \in 0..Len(request.bytes), j \in 0..Len(request.bytes) :
        /\ i <= j
        /\ SubSeq(request.bytes, i + 1, j) = d.chars
        /\ \A k \in 1..Len(request.bytes) : (k <= i \/ k > j) => request.bytes[k] \in Whitespace

\* C15: for every request the tracker server has handled, at most one datagram
\* was sent and it went to the address the request came from; exactly one was
\* sent when the requested device name is in the registry and none when it is
\* not; and every message sent ends with a semicolon.
C15_OneAnswerPerRequest ==
    op = "handle" =>
        /\ Len(sent) <= 1
        /\ \A k \in 1..Len(sent) :
             /\ sent[k].to = client_address
             /\ sent[k].data.bytes[Len(sent[k].data.bytes)] = SEMICOLON
        /\ (\E d \in devices : Requests_device(d)) => Len(sent) = 1
        /\ ~(\E d \in devices : Requests_device(d)) => Len(sent) = 0

\* a request with whitespace around the name of a registered device was answered
C15_Witness ==
    /\ op = "handle" /\ Len(sent) = 1
    /\ Len(request.bytes) > 1 /\ request.bytes[1] \in Whitespace
    /\ devices # DeviceNames

====
